---- MODULE Spec2Model ----
(***************************************************************************)
(* A model of membrane: the parser, the optimizer (squash_and_clean, the   *)
(* 2-, 3- and 4-window substitution passes, remove_spurious_loops and      *)
(* fix_loops) and the interpreter with its Memory.                         *)
(*                                                                         *)
(* Representation choices:                                                 *)
(*  - an Instruction is a record [op, x, y, v]; the fields a variant does  *)
(*    not have are 0 / Z4;                                                 *)
(*  - sequences are 1-based, the program's indices (jump locations, the    *)
(*    program counter, tape indices) are 0-based as in the source;         *)
(*  - Memory.tape (a Vec<u8>) is the pair of its length (len) and the      *)
(*    function from the indices of its non-zero cells to their values;     *)
(*  - i8 values are kept in -128..127, u8 values in 0..255;                *)
(*  - usize is 64 bits wide: a usize value that wrapped below zero is      *)
(*    never stored, only its remainder by the tape size, which is computed *)
(*    from 2^64 mod n.                                                     *)
(*  - isize::MIN and 2^63 do not fit TLC's integers: ISIZE_MIN and         *)
(*    TWO_POW_63 stand for them, and the operators that meet them          *)
(*    (NegAsUsize, WrappingSubRem) compute with 2^63 mod n.                *)
(***************************************************************************)
EXTENDS Integers, Sequences, FiniteSets, TLC

\* ------------------------------------------------------------------------
\* Bounds of the model
\* ------------------------------------------------------------------------
MaxSrc == 5

\* the longest source that holds characters that are no commands
MaxCommented == 4

MaxProg == 4

MaxPassLen == 4

MaxInterpLen == 3

MaxSteps == 8

MaxInput == 1

\* ------------------------------------------------------------------------
\* Program constants
\* ------------------------------------------------------------------------
VECTOR_SIZE == 4

TAPE_GROW_AMOUNT == 50

STANDARD_TAPE_SIZE == 30000

DEFAULT_INPUT_BUFFER_SIZE == 8

UsizeBits == 64

\* ------------------------------------------------------------------------
\* Fixed-width arithmetic
\* ------------------------------------------------------------------------
\* i8::wrapping_add result, as a value of -128..127
WrapI8(n) == ((n + 128) % 256) - 128

\* `x as u8` for an i8 x, and u8::wrapping_add
AsU8(n) == n % 256

\* 2^k mod n, without ever forming 2^k
RECURSIVE Pow2Mod(_, _)
Pow2Mod(k, n) == IF k = 0 THEN 1 % n ELSE (2 * Pow2Mod(k - 1, n)) % n

\* isize::MIN = -2^63, the one isize whose negation is no isize. TLC's
\* integers have 32 bits, so the model writes it as the least amount it uses;
\* every other amount of the model is far from both ends of isize.
ISIZE_MIN == -2147483647

\* 2^63, which is `isize::MIN as usize` and also what `-isize::MIN as usize`
\* is in a build without overflow checks; above every head of the model
TWO_POW_63 == 2147483647

\* `-amount as usize` for a negative amount
NegAsUsize(amount) == IF amount = ISIZE_MIN THEN TWO_POW_63 ELSE -amount

\* `-amount` panics in a build with overflow checks when amount is isize::MIN
NegationOverflows(amount) == amount = ISIZE_MIN

\* head.wrapping_add(amount).wrapping_rem(tape_size); head + amount stays
\* below 2^64 for every value of the model
WrappingAddRem(head, amount, tape_size) == (head + amount) % tape_size

\* head.wrapping_sub(amount).wrapping_rem(tape_size): when amount > head the
\* difference wraps to 2^64 + head - amount before the remainder is taken
WrappingSubRem(head, amount, tape_size) ==
    IF amount = TWO_POW_63
    THEN (head + Pow2Mod(UsizeBits - 1, tape_size)) % tape_size
    ELSE IF head >= amount
    THEN (head - amount) % tape_size
    ELSE (Pow2Mod(UsizeBits, tape_size) + ((head - amount) % tape_size)) % tape_size

SaturatingSub(a, b) == IF a >= b THEN a - b ELSE 0

\* ------------------------------------------------------------------------
\* Instruction (src/instruction.rs)
\* ------------------------------------------------------------------------
Z4 == <<0, 0, 0, 0>>

Ins(op, x, y, v) == [op |-> op, x |-> x, y |-> y, v |-> v]

Add(amount) == Ins("Add", amount, 0, Z4)

Move(amount) == Ins("Move", amount, 0, Z4)

Write(amount) == Ins("Write", amount, 0, Z4)

Read(amount) == Ins("Read", amount, 0, Z4)

JumpIfZero(location) == Ins("JumpIfZero", location, 0, Z4)

JumpIfNotZero(location) == Ins("JumpIfNotZero", location, 0, Z4)

SetValue(value) == Ins("SetValue", value, 0, Z4)

AddRelative(offset, amount) == Ins("AddRelative", offset, amount, Z4)

AddVector(vector) == Ins("AddVector", 0, 0, vector)

MoveRightToZero(increment, stride) == Ins("MoveRightToZero", increment, stride, Z4)

MoveLeftToZero(increment, stride) == Ins("MoveLeftToZero", increment, stride, Z4)

IsMoveToZero(i) == i.op \in {"MoveRightToZero", "MoveLeftToZero"}

preserves_tape_head(i) == i.op \notin {"Move", "MoveRightToZero", "MoveLeftToZero"}

is_add_friendly(i) == i.op \notin {"Read", "SetValue"}

\* ------------------------------------------------------------------------
\* Parser (src/parser.rs)
\* ------------------------------------------------------------------------
\* parse: the state of the loop over the characters is the instructions
\* pushed so far, the jump stack and the error flag
RECURSIVE parse(_, _, _, _)
parse(string, k, instructions, jump_stack) ==
    IF k > Len(string) THEN [ok |-> TRUE, instructions |-> instructions]
    ELSE LET c == string[k] IN
      CASE c = "+" -> parse(string, k + 1, Append(instructions, Add(1)), jump_stack)
        [] c = "-" -> parse(string, k + 1, Append(instructions, Add(-1)), jump_stack)
        [] c = ">" -> parse(string, k + 1, Append(instructions, Move(1)), jump_stack)
        [] c = "<" -> parse(string, k + 1, Append(instructions, Move(-1)), jump_stack)
        [] c = "." -> parse(string, k + 1, Append(instructions, Write(1)), jump_stack)
        [] c = "," -> parse(string, k + 1, Append(instructions, Read(1)), jump_stack)
        [] c = "[" -> parse(string, k + 1, Append(instructions, JumpIfZero(0)),
                            Append(jump_stack, Len(instructions)))
        [] c = "]" ->
             IF jump_stack = <<>>
             THEN [ok |-> FALSE, instructions |-> instructions]
             ELSE LET loop_start == jump_stack[Len(jump_stack)]
                      instruction_count == Len(instructions)
                  IN IF instructions[loop_start + 1].op = "JumpIfZero"
                     THEN parse(string, k + 1,
                                Append([instructions EXCEPT ![loop_start + 1] =
                                            JumpIfZero(instruction_count)],
                                       JumpIfNotZero(loop_start)),
                                SubSeq(jump_stack, 1, Len(jump_stack) - 1))
                     ELSE [ok |-> FALSE, instructions |-> instructions]
        [] OTHER -> parse(string, k + 1, instructions, jump_stack)

\* a parser that leaves each JumpIfZero with the location it was pushed with
parse_string_unpatched(string) ==
    LET r == parse(string, 1, <<>>, <<>>)
    IN [r EXCEPT !.instructions =
            [k \in 1..Len(r.instructions) |->
                IF r.instructions[k].op = "JumpIfZero" THEN JumpIfZero(0)
                ELSE r.instructions[k]]]

parse_string(string) == parse(string, 1, <<>>, <<>>)

\* ------------------------------------------------------------------------
\* Optimizer (src/optimizer.rs)
\* ------------------------------------------------------------------------
\* `a + b` on two i8: in range it is the sum; out of range a build with
\* overflow checks panics (marked by OVERFLOWED in the amount) and a build
\* without them wraps
OVERFLOWED == 999

PlainAddI8(a, b, build) ==
    IF a + b \in -128..127 THEN a + b
    ELSE IF build = "release" THEN WrapI8(a + b) ELSE OVERFLOWED

Panicked(instructions) ==
    \E k \in 1..Len(instructions) : instructions[k].y = OVERFLOWED

\* vector[lane] = value, lanes counted from 0
SetLane(vector, lane, value) == [vector EXCEPT ![lane + 1] = value]

Lane(vector, lane) == vector[lane + 1]

\* the index after the maximal run, starting at i, of instructions whose op
\* is that of instructions[i] (for AddRelative: and whose offset is too)
RECURSIVE RunEnd(_, _, _)
RunEnd(instructions, i, j) ==
    IF j > Len(instructions) THEN j
    ELSE LET first == instructions[i]
             next == instructions[j]
             same == CASE IsMoveToZero(first) -> IsMoveToZero(next)
                       [] first.op = "AddRelative" ->
                            next.op = "AddRelative" /\ next.x = first.x
                       [] OTHER -> next.op = first.op
         IN IF same THEN RunEnd(instructions, i, j + 1) ELSE j

\* the sum of the x fields (resp. y fields) of instructions[i..j-1]
RECURSIVE SumX(_, _, _)
SumX(instructions, i, j) ==
    IF i >= j THEN 0 ELSE instructions[i].x + SumX(instructions, i + 1, j)

RECURSIVE SumY(_, _, _)
SumY(instructions, i, j) ==
    IF i >= j THEN 0 ELSE instructions[i].y + SumY(instructions, i + 1, j)

RECURSIVE SumLane(_, _, _, _)
SumLane(instructions, i, j, lane) ==
    IF i >= j THEN 0
    ELSE Lane(instructions[i].v, lane) + SumLane(instructions, i + 1, j, lane)

\* what squash_and_clean pushes for the run instructions[i..j-1].
\* Move, Write and Read accumulate with checked_add, which cannot fail for
\* the amounts of this model (they stay far below 2^63).
SquashRun(instructions, i, j) ==
    LET first == instructions[i] IN
    CASE first.op = "Add" ->
           LET accumulator == WrapI8(SumX(instructions, i, j))
           IN IF accumulator # 0 THEN <<Add(accumulator)>> ELSE <<>>
      [] first.op \in {"Move", "Write", "Read"} ->
           LET accumulator == SumX(instructions, i, j)
           IN IF accumulator # 0 THEN <<Ins(first.op, accumulator, 0, Z4)>> ELSE <<>>
      [] first.op = "SetValue" -> <<SetValue(instructions[j - 1].x)>>
      [] first.op = "AddRelative" ->
           LET total_amount == WrapI8(SumY(instructions, i, j))
           IN IF total_amount # 0
              THEN IF first.x # 0 THEN <<AddRelative(first.x, total_amount)>>
                                  ELSE <<Add(total_amount)>>
              ELSE <<>>
      [] first.op = "AddVector" ->
           LET accumulator == [l \in 1..4 |->
                                 WrapI8(SumLane(instructions, i, j, l - 1))]
           IN CASE accumulator = Z4 -> <<>>
                [] accumulator # Z4 /\ accumulator[2] = 0 /\ accumulator[3] = 0
                     /\ accumulator[4] = 0 -> <<Add(accumulator[1])>>
                [] accumulator[1] = 0 /\ accumulator[2] # 0 /\ accumulator[3] = 0
                     /\ accumulator[4] = 0 -> <<AddRelative(1, accumulator[2])>>
                [] accumulator[1] = 0 /\ accumulator[2] = 0 /\ accumulator[3] # 0
                     /\ accumulator[4] = 0 -> <<AddRelative(2, accumulator[3])>>
                [] accumulator[1] = 0 /\ accumulator[2] = 0 /\ accumulator[3] = 0
                     /\ accumulator[4] # 0 -> <<AddRelative(3, accumulator[4])>>
                [] OTHER -> <<AddVector(accumulator)>>
      [] IsMoveToZero(first) -> <<first>>
      [] OTHER -> <<first>>

\* a squash that merges the runs of Add and Move only
Squashable_only_arithmetic(i) ==
    i.op \in {"Add", "Move"}

\* only the runs of these variants are merged; every other instruction is
\* pushed on its own
Squashable(i) ==
    i.op \in {"Add", "Move", "Write", "Read", "SetValue", "AddRelative",
              "AddVector", "MoveRightToZero", "MoveLeftToZero"}

RECURSIVE squash_from(_, _)
squash_from(instructions, i) ==
    IF i > Len(instructions) THEN <<>>
    ELSE LET j == IF Squashable(instructions[i])
                  THEN RunEnd(instructions, i, i + 1) ELSE i + 1
         IN SquashRun(instructions, i, j) \o squash_from(instructions, j)

squash_and_clean(instructions) == squash_from(instructions, 1)

\* --- substitute_patterns_2 ----------------------------------------------
\* the match of one 2-window: [matched, out], out being what is pushed
Match2(w1, w2) ==
    LET no == [matched |-> FALSE, out |-> <<>>]
        yes(out) == [matched |-> TRUE, out |-> out]
    IN
    CASE w1.op = "Add" /\ w2.op = "SetValue" -> yes(<<SetValue(w2.x)>>)
      [] (w1.op = "Add" /\ w2.op = "AddRelative")
           \/ (w1.op = "AddRelative" /\ w2.op = "Add") ->
           LET a == IF w1.op = "Add" THEN w1.x ELSE w2.x
               rel == IF w1.op = "Add" THEN w2 ELSE w1
               offset == rel.x
               b == rel.y
           IN IF offset > 0 /\ offset < 4
              THEN yes(<<AddVector(SetLane(SetLane(Z4, 0, a), offset, b))>>)
              ELSE no
      [] w1.op = "Add" /\ w2.op = "AddVector" ->
           yes(<<AddVector(SetLane(w2.v, 0, WrapI8(Lane(w2.v, 0) + w1.x)))>>)
      [] w1.op = "SetValue" /\ w2.op = "Add" ->
           yes(<<SetValue(WrapI8(w1.x + w2.x))>>)
      [] w1.op = "SetValue" /\ w1.x = 0 /\ IsMoveToZero(w2) -> yes(<<SetValue(0)>>)
      [] w1.op = "AddRelative" /\ w2.op = "AddVector" ->
           LET offset == w1.x
           IN IF offset >= 0 /\ offset < 4
              THEN yes(<<AddVector(SetLane(w2.v, offset,
                                           WrapI8(Lane(w2.v, offset) + w1.y)))>>)
              ELSE no
      [] w1.op = "AddVector" /\ w2.op = "Add" ->
           yes(<<AddVector(SetLane(w1.v, 0, WrapI8(Lane(w1.v, 0) + w2.x)))>>)
      [] IsMoveToZero(w1) /\ w2.op = "Add" -> yes(<<w1, SetValue(w2.x)>>)
      [] OTHER -> no

\* the loop over instructions.windows(2): i is the start of the window that
\* iterator.next() returns, skip the number of windows a match consumes; when
\* the iterator is exhausted, `matched` is that of the last window examined
RECURSIVE windows_2(_, _, _, _)
windows_2(instructions, i, matched, skip) ==
    IF i + 1 > Len(instructions)
    THEN IF ~matched THEN <<instructions[Len(instructions)]>> ELSE <<>>
    ELSE LET m == Match2(instructions[i], instructions[i + 1])
         IN IF m.matched
            THEN m.out \o windows_2(instructions, i + skip, TRUE, skip)
            ELSE <<instructions[i]>> \o windows_2(instructions, i + 1, FALSE, skip)

\* the pass without the `iterator.next()` that follows a match: the window
\* that overlaps the rewritten pair is examined too
substitute_patterns_2_no_skip(instructions) ==
    IF Len(instructions) < 2 THEN instructions
    ELSE windows_2(instructions, 1, FALSE, 1)

substitute_patterns_2(instructions) ==
    IF Len(instructions) < 2 THEN instructions
    ELSE windows_2(instructions, 1, FALSE, 2)

\* --- substitute_patterns_3 ----------------------------------------------
\* a 3-window match that takes the offset from the move back
Match3_offset_of_second_move(w1, w2, w3, build) ==
    IF w1.op = "Move" /\ w2.op = "Add" /\ w3.op = "Move"
    THEN [matched |-> TRUE, out |-> <<AddRelative(w3.x, w2.x)>>]
    ELSE [matched |-> FALSE, out |-> <<>>]

Match3(w1, w2, w3, build) ==
    LET no == [matched |-> FALSE, out |-> <<>>]
        yes(out) == [matched |-> TRUE, out |-> out]
    IN
    CASE w1.op = "Add" /\ w2.op = "Move" /\ w3.op = "Add" ->
           LET a == w1.x
               stride == w2.x
               b == w3.x
           IN IF stride >= 0 /\ stride < 4
              THEN yes(<<AddVector(SetLane(SetLane(Z4, 0, a), stride, b)),
                         Move(stride)>>)
              ELSE IF stride < 0 /\ stride > -4
              THEN yes(<<Move(stride),
                         AddVector(SetLane(SetLane(Z4, 0, b), -stride, a))>>)
              ELSE no
      [] w1.op = "Move" /\ w2.op = "Add" /\ w3.op = "Move" ->
           LET move1 == w1.x
               move2 == w3.x
               amount == w2.x
           IN IF move1 = -move2
              THEN yes(<<AddRelative(move1, amount)>>)
              ELSE yes(<<AddRelative(move1, amount), Move(move1 + move2)>>)
      [] w1.op = "JumpIfZero" /\ w2.op = "Add" /\ w2.x \in {1, -1}
           /\ w3.op = "JumpIfNotZero" -> yes(<<SetValue(0)>>)
      [] w1.op = "JumpIfZero" /\ w2.op = "Move" /\ w3.op = "JumpIfNotZero" ->
           LET stride == w2.x
           IN IF stride > 0 THEN yes(<<MoveRightToZero(0, stride)>>)
              ELSE IF stride < 0 THEN yes(<<MoveLeftToZero(0, -stride)>>)
              ELSE yes(<<>>)
      [] w1.op = "AddRelative" /\ w3.op = "AddRelative" ->
           IF w1.x = w3.x /\ preserves_tape_head(w2)
           THEN yes(<<AddRelative(w1.x, PlainAddI8(w1.y, w3.y, build)), w2>>)
           ELSE no
      [] OTHER -> no

RECURSIVE windows_3(_, _, _, _, _)
windows_3(instructions, i, matched, skip, build) ==
    IF i + 2 > Len(instructions)
    THEN IF ~matched
         THEN <<instructions[Len(instructions) - 1], instructions[Len(instructions)]>>
         ELSE <<>>
    ELSE LET m == Match3(instructions[i], instructions[i + 1], instructions[i + 2],
                         build)
         IN IF m.matched
            THEN m.out \o windows_3(instructions, i + skip, TRUE, skip, build)
            ELSE <<instructions[i]>>
                   \o windows_3(instructions, i + 1, FALSE, skip, build)

\* a pass that recognises no 3-window
substitute_patterns_3_skipped(instructions, build) == instructions

substitute_patterns_3(instructions, build) ==
    IF Len(instructions) < 3 THEN instructions
    ELSE windows_3(instructions, 1, FALSE, 3, build)

\* --- substitute_patterns_4 ----------------------------------------------
\* a 4-window match that makes every stride loop a MoveRightToZero
Match4_always_right(w1, w2, w3, w4, build) ==
    IF w1.op = "JumpIfZero" /\ w2.op = "Add" /\ w3.op = "Move"
         /\ w4.op = "JumpIfNotZero"
    THEN [matched |-> TRUE,
          out |-> <<MoveRightToZero(w2.x, IF w3.x < 0 THEN -w3.x ELSE w3.x)>>]
    ELSE [matched |-> FALSE, out |-> <<>>]

Match4(w1, w2, w3, w4, build) ==
    LET no == [matched |-> FALSE, out |-> <<>>]
        yes(out) == [matched |-> TRUE, out |-> out]
    IN
    CASE w1.op = "Add" /\ w2.op = "Move" /\ w3.op = "Add" /\ w4.op = "Move" ->
           LET a == w1.x
               b == w3.x
               move1 == w2.x
               move2 == w4.x
               total_move == move1 + move2
           IN IF move1 > 0 /\ move2 > 0 /\ total_move < 4
              THEN yes(<<AddVector(SetLane(SetLane(Z4, 0, a), move1, b)),
                         Move(total_move)>>)
              ELSE IF move1 < 0 /\ move2 < 0 /\ total_move > -4
              THEN yes(<<Move(total_move),
                         AddVector(SetLane(SetLane(Z4, 1, b), (-move1) + 1, a))>>)
              ELSE no
      [] w1.op = "Move" /\ w2.op = "Add" /\ w3.op = "Move" /\ w4.op = "Add" ->
           LET a == w2.x
               b == w4.x
               move1 == w1.x
               move2 == w3.x
               total_move == move1 + move2
           IN IF move1 > 0 /\ move2 > 0 /\ total_move < 4
              THEN yes(<<AddVector(SetLane(SetLane(Z4, move1, a), total_move, b)),
                         Move(total_move)>>)
              ELSE IF move1 < 0 /\ move2 < 0 /\ total_move > -4
              THEN yes(<<Move(total_move),
                         AddVector(SetLane(SetLane(Z4, 0, b), -move2, a))>>)
              ELSE no
      [] w1.op = "JumpIfZero" /\ w2.op = "Add" /\ w3.op = "Move"
           /\ w4.op = "JumpIfNotZero" ->
           LET increment == w2.x
               stride == w3.x
           IN IF stride > 0 THEN yes(<<MoveRightToZero(increment, stride)>>)
              ELSE IF stride < 0 THEN yes(<<MoveLeftToZero(increment, -stride)>>)
              ELSE yes(<<>>)
      [] w1.op = "AddRelative" /\ w4.op = "AddRelative" ->
           IF w1.x = w4.x /\ is_add_friendly(w2) /\ is_add_friendly(w3)
           THEN yes(<<AddRelative(w1.x, PlainAddI8(w1.y, w4.y, build)), w2, w3>>)
           ELSE no
      [] OTHER -> no

RECURSIVE windows_4(_, _, _, _, _)
windows_4(instructions, i, matched, skip, build) ==
    IF i + 3 > Len(instructions)
    THEN IF ~matched
         THEN SubSeq(instructions, Len(instructions) - 2, Len(instructions))
         ELSE <<>>
    ELSE LET m == Match4(instructions[i], instructions[i + 1], instructions[i + 2],
                         instructions[i + 3], build)
         IN IF m.matched
            THEN m.out \o windows_4(instructions, i + skip, TRUE, skip, build)
            ELSE <<instructions[i]>>
                   \o windows_4(instructions, i + 1, FALSE, skip, build)

substitute_patterns_4(instructions, build) ==
    IF Len(instructions) < 4 THEN instructions
    ELSE windows_4(instructions, 1, FALSE, 4, build)

\* --- remove_spurious_loops ----------------------------------------------
\* the inner scan of a dropped loop: the index of the JumpIfNotZero met at
\* loop_depth 0, or 0 when the iterator is exhausted first
RECURSIVE SkipLoop(_, _, _)
SkipLoop(instructions, j, loop_depth) ==
    IF j > Len(instructions) THEN 0
    ELSE CASE instructions[j].op = "JumpIfZero" ->
                SkipLoop(instructions, j + 1, loop_depth + 1)
           [] instructions[j].op = "JumpIfNotZero" ->
                IF loop_depth = 0 THEN j
                ELSE SkipLoop(instructions, j + 1, loop_depth - 1)
           [] OTHER -> SkipLoop(instructions, j + 1, loop_depth)

\* a scan in which an Add leaves the flag as it is
NextCellIsZero_add_keeps(instruction, cell_is_zero) ==
    CASE instruction.op \in {"JumpIfZero", "Write", "Add"} -> cell_is_zero
      [] instruction.op \in {"JumpIfNotZero", "MoveRightToZero", "MoveLeftToZero"} -> TRUE
      [] instruction.op \in {"Move", "Read", "AddRelative", "AddVector"} -> FALSE
      [] instruction.op = "SetValue" -> instruction.x = 0

\* the flag after an instruction that is kept
NextCellIsZero(instruction, cell_is_zero) ==
    CASE instruction.op \in {"JumpIfZero", "Write"} -> cell_is_zero
      [] instruction.op \in {"JumpIfNotZero", "MoveRightToZero", "MoveLeftToZero"} -> TRUE
      [] instruction.op \in {"Add", "Move", "Read", "AddRelative", "AddVector"} -> FALSE
      [] instruction.op = "SetValue" -> instruction.x = 0

RECURSIVE spurious_from(_, _, _)
spurious_from(instructions, i, cell_is_zero) ==
    IF i > Len(instructions) THEN <<>>
    ELSE LET instruction == instructions[i] IN
         IF instruction.op = "JumpIfZero" /\ cell_is_zero
         THEN LET close == SkipLoop(instructions, i + 1, 0)
              IN IF close # 0
                 THEN spurious_from(instructions, close + 1, cell_is_zero)
                 ELSE <<instruction>>
         ELSE <<instruction>>
                \o spurious_from(instructions, i + 1,
                                 NextCellIsZero(instruction, cell_is_zero))

remove_spurious_loops(instructions) == spurious_from(instructions, 1, TRUE)

\* --- fix_loops ----------------------------------------------------------
\* jump_stack holds the (1-based) positions of the pending JumpIfZero, each
\* of which has had its location set to its own index when it was pushed
RECURSIVE fix_from(_, _, _)
fix_from(instructions, k, jump_stack) ==
    IF k > Len(instructions) THEN instructions
    ELSE LET index == k - 1 IN
         CASE instructions[k].op = "JumpIfZero" ->
                fix_from([instructions EXCEPT ![k] = JumpIfZero(index)], k + 1,
                         Append(jump_stack, k))
           [] instructions[k].op = "JumpIfNotZero" ->
                IF jump_stack # <<>>
                THEN LET top == jump_stack[Len(jump_stack)]
                         loop_end == instructions[top].x
                     IN fix_from([instructions EXCEPT
                                     ![k] = JumpIfNotZero(loop_end),
                                     ![top] = JumpIfZero(index)],
                                 k + 1, SubSeq(jump_stack, 1, Len(jump_stack) - 1))
                ELSE fix_from(instructions, k + 1, jump_stack)
           [] OTHER -> fix_from(instructions, k + 1, jump_stack)

\* a fix_loops that never writes the index of the JumpIfNotZero back into
\* its JumpIfZero
fix_loops_no_backpatch(instructions) ==
    LET fixed == fix_from(instructions, 1, <<>>)
    IN [k \in 1..Len(fixed) |->
          IF fixed[k].op = "JumpIfZero" THEN JumpIfZero(k - 1) ELSE fixed[k]]

fix_loops(instructions) == fix_from(instructions, 1, <<>>)

\* --- optimize -----------------------------------------------------------
\* one iteration of the loop of optimize, lines 23-32: the five passes in
\* order; a pass that panicked ends the cycle with its marked buffer
OptimizeCycleBody(instructions, build) ==
    LET p3(s) == IF Panicked(s) THEN s ELSE substitute_patterns_3(s, build)
        p2(s) == IF Panicked(s) THEN s ELSE substitute_patterns_2(s)
        rsl(s) == IF Panicked(s) THEN s ELSE remove_spurious_loops(s)
    IN rsl(p2(p3(substitute_patterns_4(squash_and_clean(instructions), build))))

\* what a build can make of a computation that adds two i8 with `+`: the
\* result of the build with overflow checks and, when that one panicked, also
\* the result of the build without them
Outcomes(debug, release) == IF Panicked(debug) THEN {debug, release} ELSE {debug}

\* a loop that is left only when a cycle has lengthened the program
LoopBreaks_only_on_growth(end_instruction_count, start_instruction_count) ==
    end_instruction_count > start_instruction_count

\* the test that leaves the loop, line 44
LoopBreaks(end_instruction_count, start_instruction_count) ==
    end_instruction_count >= start_instruction_count

\* ------------------------------------------------------------------------
\* Interpreter (src/interpreter.rs)
\* ------------------------------------------------------------------------
\* TapeSize
Finite(n) == [kind |-> "Finite", n |-> n]

Infinite == [kind |-> "Infinite", n |-> 0]

\* main: --tape 0 is the infinite tape, a positive value the finite one
TapeSizeOf(tape_arg) == IF tape_arg = 0 THEN Infinite ELSE Finite(tape_arg)

\* the cells of a Vec<u8>, kept as the function from the indices of the
\* non-zero cells to their values
TapeGet(tape, i) == IF i \in DOMAIN tape THEN tape[i] ELSE 0

TapeSet(tape, i, value) ==
    IF value = 0
    THEN [k \in (DOMAIN tape) \ {i} |-> tape[k]]
    ELSE [k \in (DOMAIN tape) \cup {i} |-> IF k = i THEN value ELSE tape[k]]

\* Memory::new
Memory_new(size) ==
    [head |-> 0,
     tape |-> <<>>,
     len |-> IF size.kind = "Finite" THEN size.n ELSE STANDARD_TAPE_SIZE,
     size |-> size]

\* saturating_add never saturates for the heads of this model
move_head_right(memory, amount) ==
    IF memory.size.kind = "Finite"
    THEN [memory EXCEPT !.head = WrappingAddRem(memory.head, amount, memory.size.n)]
    ELSE [memory EXCEPT !.head = memory.head + amount]

move_head_left(memory, amount) ==
    IF memory.size.kind = "Finite"
    THEN [memory EXCEPT !.head = WrappingSubRem(memory.head, amount, memory.size.n)]
    ELSE [memory EXCEPT !.head = SaturatingSub(memory.head, amount)]

move_head(memory, amount) ==
    IF amount >= 0 THEN move_head_right(memory, amount)
    ELSE move_head_left(memory, NegAsUsize(amount))

\* get_cell_value: the value read and the buffer index it indexes (none when
\* the checked `get` of the infinite tape finds the index beyond the buffer)
get_cell_value(memory, index) ==
    IF memory.size.kind = "Finite"
    THEN LET wrapped_index == index % memory.size.n
         IN [value |-> TapeGet(memory.tape, wrapped_index), idx |-> {wrapped_index}]
    ELSE IF index < memory.len
         THEN [value |-> TapeGet(memory.tape, index), idx |-> {index}]
         ELSE [value |-> 0, idx |-> {}]

current_cell_value(memory) == get_cell_value(memory, memory.head)

\* get_cell_mut: the memory after the growth it may cause and the buffer
\* index of the cell it returns
get_cell_mut(memory, index) ==
    IF memory.size.kind = "Finite"
    THEN [memory |-> memory, index |-> index % memory.size.n]
    ELSE LET tape_size == memory.len
         IN IF index >= tape_size
            THEN [memory |-> [memory EXCEPT !.len = index + TAPE_GROW_AMOUNT],
                  index |-> index]
            ELSE [memory |-> memory, index |-> index]

current_cell_mut(memory) == get_cell_mut(memory, memory.head)

\* current_cell_vector: the memory after the growth it may cause and the
\* four buffer indices
current_cell_vector(memory) ==
    IF memory.size.kind = "Finite"
    THEN LET tape_size == memory.size.n
         IN [memory |-> memory,
             vector |-> <<memory.head,
                          WrappingAddRem(memory.head, 1, tape_size),
                          WrappingAddRem(memory.head, 2, tape_size),
                          WrappingAddRem(memory.head, 3, tape_size)>>]
    ELSE [memory |-> IF memory.head + VECTOR_SIZE >= memory.len
                     THEN [memory EXCEPT !.len = memory.len + TAPE_GROW_AMOUNT]
                     ELSE memory,
          vector |-> <<memory.head, memory.head + 1, memory.head + 2,
                       memory.head + 3>>]

\* the index the AddRelative arm hands to get_cell_mut, already reduced by
\* the tape size for the finite tape (head.wrapping_add(offset as usize) wraps
\* modulo 2^64 when offset is negative and its magnitude exceeds the head)
AddRelativeIndex(memory, offset) ==
    IF memory.size.kind = "Finite"
    THEN IF offset >= 0
         THEN WrappingAddRem(memory.head, offset, memory.size.n)
         ELSE WrappingSubRem(memory.head, NegAsUsize(offset), memory.size.n)
    ELSE IF offset >= 0 THEN memory.head + offset
         ELSE SaturatingSub(memory.head, NegAsUsize(offset))

\* `*cell = cell.wrapping_add(amount as u8)` on the cell at a buffer index
AddToCell(memory, idx, amount) ==
    [memory EXCEPT !.tape = TapeSet(memory.tape, idx,
                                    AsU8(TapeGet(memory.tape, idx) + AsU8(amount)))]

\* io_buffer.extend(...) when amount >= io_buffer.len()
GrowIoBuffer(io_buffer, amount) ==
    IF amount >= Len(io_buffer)
    THEN io_buffer \o [k \in 1..(amount + 1 - Len(io_buffer)) |-> 0]
    ELSE io_buffer

\* io_buffer with its first `amount` bytes replaced by those of `bytes`
FillPrefix(io_buffer, amount, bytes) ==
    [k \in 1..Len(io_buffer) |-> IF k <= amount THEN bytes[k] ELSE io_buffer[k]]

\* a slice that stops one byte short of the count
FilledSlice_one_short(amount, cell) ==
    [k \in 1..(IF amount > 0 THEN amount - 1 ELSE 0) |-> cell]

\* `&mut io_buffer[0..amount]` after `slice.fill(cell)`, lines 228-229
FilledSlice(amount, cell) == [k \in 1..amount |-> cell]

\* one pass through the body of the `while let` loop of interpret, lines
\* 206-344, for the instruction fetched: the set of states it can leave.
\* st is [program_counter, memory, io_buffer, input, output, status, access]
\* with program_counter already advanced; access is the set of buffer indices
\* the arm indexes and the length of the buffer when it does.
Acc(idx, len) == [idx |-> idx, len |-> len]

Exec(st, instruction) ==
    LET memory == st.memory IN
    CASE instruction.op = "Add" ->
           LET c == current_cell_mut(memory)
           IN {[st EXCEPT !.memory = AddToCell(c.memory, c.index, instruction.x),
                          !.access = Acc({c.index}, c.memory.len)]}
      [] instruction.op = "Move" ->
           \* line 97: a build with overflow checks panics on `-amount` when
           \* the amount is isize::MIN, a build without them moves on
           {[st EXCEPT !.memory = move_head(memory, instruction.x),
                       !.access = Acc({}, memory.len)]}
             \cup (IF NegationOverflows(instruction.x)
                   THEN {[st EXCEPT !.status = "panicked",
                                    !.access = Acc({}, memory.len)]}
                   ELSE {})
      [] instruction.op = "Write" ->
           LET amount == instruction.x
               cell == current_cell_value(memory)
               grown == GrowIoBuffer(st.io_buffer, amount)
               slice == FilledSlice(amount, cell.value)
               filled == FillPrefix(grown, Len(slice), slice)
           IN {[st EXCEPT !.io_buffer = filled,
                          !.output = st.output \o slice,
                          !.access = Acc(cell.idx, memory.len)]}
                \* lines 236-242: write_all fails after it has written some
                \* of the bytes (a closed pipe, a full disk): todo!() panics
                \cup {[st EXCEPT !.io_buffer = filled,
                                 !.output = st.output \o SubSeq(slice, 1, j),
                                 !.status = "panicked",
                                 !.access = Acc(cell.idx, memory.len)]
                        : j \in 0..(Len(slice) - 1)}
      [] instruction.op = "Read" ->
           LET amount == instruction.x IN
           IF amount > 0
           THEN LET grown == GrowIoBuffer(st.io_buffer, amount) IN
                IF Len(st.input) >= amount
                THEN LET filled == FillPrefix(grown, amount, st.input)
                         c == current_cell_mut(memory)
                     IN {[st EXCEPT
                            !.io_buffer = filled,
                            !.input = SubSeq(st.input, amount + 1, Len(st.input)),
                            !.memory = [c.memory EXCEPT !.tape =
                                          TapeSet(c.memory.tape, c.index,
                                                  filled[Len(filled)])],
                            !.access = Acc({c.index}, c.memory.len)]}
                ELSE \* read_exact fails with UnexpectedEof: todo!() panics
                     {[st EXCEPT !.io_buffer = grown, !.input = <<>>,
                                 !.status = "panicked",
                                 !.access = Acc({}, memory.len)]}
           ELSE {[st EXCEPT !.access = Acc({}, memory.len)]}
      [] instruction.op = "JumpIfZero" ->
           LET cell == current_cell_value(memory)
           IN {[st EXCEPT !.program_counter =
                             IF cell.value = 0 THEN instruction.x
                             ELSE st.program_counter,
                          !.access = Acc(cell.idx, memory.len)]}
      [] instruction.op = "JumpIfNotZero" ->
           LET cell == current_cell_value(memory)
           IN {[st EXCEPT !.program_counter =
                             IF cell.value # 0 THEN instruction.x
                             ELSE st.program_counter,
                          !.access = Acc(cell.idx, memory.len)]}
      [] instruction.op = "SetValue" ->
           LET c == current_cell_mut(memory)
           IN {[st EXCEPT !.memory = [c.memory EXCEPT !.tape =
                                        TapeSet(c.memory.tape, c.index,
                                                AsU8(instruction.x))],
                          !.access = Acc({c.index}, c.memory.len)]}
      [] instruction.op = "AddRelative" ->
           LET c == get_cell_mut(memory, AddRelativeIndex(memory, instruction.x))
           \* line 301: `-offset` as in move_head
           IN {[st EXCEPT !.memory = AddToCell(c.memory, c.index, instruction.y),
                          !.access = Acc({c.index}, c.memory.len)]}
                \cup (IF memory.size.kind = "Infinite"
                         /\ NegationOverflows(instruction.x)
                      THEN {[st EXCEPT !.status = "panicked",
                                       !.access = Acc({}, memory.len)]}
                      ELSE {})
      [] instruction.op = "AddVector" ->
           LET cv == current_cell_vector(memory)
               idx == {cv.vector[l] : l \in 1..VECTOR_SIZE}
               in_bounds == \A i \in idx : i < cv.memory.len
               \* the four wrapping_add in order, on the lanes inside the buffer
               m1 == IF cv.vector[1] < cv.memory.len
                     THEN AddToCell(cv.memory, cv.vector[1], instruction.v[1])
                     ELSE cv.memory
               m2 == IF cv.vector[2] < cv.memory.len
                     THEN AddToCell(m1, cv.vector[2], instruction.v[2]) ELSE m1
               m3 == IF cv.vector[3] < cv.memory.len
                     THEN AddToCell(m2, cv.vector[3], instruction.v[3]) ELSE m2
               m4 == IF cv.vector[4] < cv.memory.len
                     THEN AddToCell(m3, cv.vector[4], instruction.v[4]) ELSE m3
               after == [st EXCEPT !.memory = m4,
                                   !.access = Acc(idx, cv.memory.len)]
           IN IF in_bounds THEN {after}
              ELSE \* get_unchecked_mut beyond the buffer is undefined
                   \* behaviour: the process is killed, or it goes on with the
                   \* stray writes landing outside the cells the tape holds
                   {after, [after EXCEPT !.status = "crashed"]}
      [] instruction.op \in {"MoveRightToZero", "MoveLeftToZero"} ->
           LET c == current_cell_mut(memory)
           IN {[st EXCEPT !.memory = c.memory,
                          !.status = "to_zero",
                          !.access = Acc({c.index}, c.memory.len)]}

\* one test of `while *cell != 0` in the MoveRightToZero / MoveLeftToZero
\* arms, with the body when the test succeeds; cell is the cell at the head
ToZero(st, instruction) ==
    LET memory == st.memory
        idx == current_cell_mut(memory).index
    IN IF TapeGet(memory.tape, idx) # 0
       THEN LET added == AddToCell(memory, idx, instruction.x)
                moved == IF instruction.op = "MoveRightToZero"
                         THEN move_head_right(added, instruction.y)
                         ELSE move_head_left(added, instruction.y)
                c == current_cell_mut(moved)
            IN [st EXCEPT !.memory = c.memory,
                          !.access = Acc({idx, c.index}, c.memory.len)]
       ELSE [st EXCEPT !.status = "running",
                       !.access = Acc({idx}, memory.len)]

\* ------------------------------------------------------------------------
\* Bytecode generator (src/compilers/bytecode.rs)
\* ------------------------------------------------------------------------
BYTECODE_VERSION == 1

OPCODE_ADD == 1

OPCODE_MOVE == 2

\* b'B', b'F', b'C' and the version byte, line 16
BytecodeHeader == <<66, 70, 67, BYTECODE_VERSION>>

\* `amount as u8` for an isize: its low byte, which is 0 for isize::MIN
IsizeAsU8(amount) == IF amount = ISIZE_MIN THEN 0 ELSE amount % 256

\* a generator that writes the operand of Move unreduced
Encode_wide_move(instruction) ==
    CASE instruction.op = "Add" -> <<OPCODE_ADD, AsU8(instruction.x)>>
      [] instruction.op = "Move" -> <<OPCODE_MOVE, instruction.x>>
      [] OTHER -> <<>>

\* the arms of the match, lines 19-27: what is written for one instruction
Encode(instruction) ==
    CASE instruction.op = "Add" -> <<OPCODE_ADD, AsU8(instruction.x)>>
      [] instruction.op = "Move" -> <<OPCODE_MOVE, IsizeAsU8(instruction.x)>>
      [] OTHER -> <<>>

RECURSIVE EncodeFrom(_, _)
EncodeFrom(instructions, k) ==
    IF k > Len(instructions) THEN <<>>
    ELSE Encode(instructions[k]) \o EncodeFrom(instructions, k + 1)

\* everything a call that returns Ok(()) has written; tape_size is not read
compile_to_bytecode(instructions, tape_size) ==
    BytecodeHeader \o EncodeFrom(instructions, 1)

\* ------------------------------------------------------------------------
\* State
\* ------------------------------------------------------------------------
VARIABLES
    source,          \* the text handed to parse_string
    stage,           \* where the toolchain is (main, optimize)
    instructions,    \* the Vec<Instruction> that main owns and optimize rewrites
    raw,             \* the instructions as first handed to optimize
    prior,           \* the instructions before the last cycle or pass
    cycles,          \* iterations of the loop of optimize done in this call
    round,           \* 1 in the first call of optimize, 2 in a call on its result
    first_result,    \* what the first call of optimize returned
    program,         \* the instructions handed to interpret
    program_counter,
    memory,
    io_buffer,
    input,           \* the bytes of the input source not yet consumed
    output,          \* the bytes written to the output sink
    instructions_executed,
    status,          \* of interpret: idle, running, to_zero, done, panicked, crashed
    access,          \* buffer indices the last step indexed, and the buffer length
    prev,            \* the instruction the last step executed and the state before it
    run,             \* which program is interpreted: raw, opt or direct
    given_input,     \* the whole input of the run
    raw_output,      \* the output of the finished run of the raw program
    ticks,           \* steps of interpret taken, the cut-off of the model
    applied          \* the passes applied so far, when passes are run one by one

optvars == <<source, stage, instructions, raw, prior, cycles, round, first_result,
             applied>>

ivars == <<program, program_counter, memory, io_buffer, input, output,
           instructions_executed, status, access, prev, run, given_input,
           raw_output, ticks>>

vars == <<optvars, ivars>>

NoInstruction == Ins("None", 0, 0, Z4)

\* the final output.flush() of interpret, as the last step it takes
Flush == Ins("Flush", 0, 0, Z4)

NoPrev == [instruction |-> NoInstruction, memory |-> Memory_new(Infinite),
           input |-> <<>>, output |-> <<>>, status |-> "idle"]

IdleInterpreter ==
    /\ program = <<>>
    /\ program_counter = 0
    /\ memory = Memory_new(Infinite)
    /\ io_buffer = <<>>
    /\ input = <<>>
    /\ output = <<>>
    /\ instructions_executed = 0
    /\ status = "idle"
    /\ access = Acc({}, 0)
    /\ prev = NoPrev
    /\ run = "none"
    /\ given_input = <<>>
    /\ raw_output = <<>>
    /\ ticks = 0

\* the state in which interpret enters its loop, lines 199-204
EnterInterpret(instrs, tape_size, bytes, which) ==
    /\ program' = instrs
    /\ program_counter' = 0
    /\ memory' = Memory_new(tape_size)
    /\ io_buffer' = [k \in 1..DEFAULT_INPUT_BUFFER_SIZE |-> 0]
    /\ input' = bytes
    /\ output' = <<>>
    /\ instructions_executed' = 0
    /\ status' = "running"
    /\ access' = Acc({}, 0)
    /\ prev' = NoPrev
    /\ run' = which
    /\ given_input' = bytes
    /\ ticks' = 0

\* ------------------------------------------------------------------------
\* Inputs of the model
\* ------------------------------------------------------------------------
SeqsUpTo(S, n) == UNION {[1..k -> S] : k \in 0..n}

SourceChars == {"+", "-", ">", "<", ".", ",", "[", "]"}

\* a character that is no command
CommentChar == "x"

\* every source of commands, and the shorter sources that also hold comments
Sources ==
    SeqsUpTo(SourceChars, MaxSrc)
      \cup SeqsUpTo(SourceChars \cup {CommentChar}, MaxCommented)

InputBytes == {65, 66}

Inputs == SeqsUpTo(InputBytes, MaxInput)

\* --tape: 0 (infinite), a power of two and a size that is not one
TapeArgs == {0, 2, 3}

MaxCycles == 8

\* ------------------------------------------------------------------------
\* Actions
\* ------------------------------------------------------------------------
\* main, line 120: parse_file(...).unwrap()
Parse ==
    /\ stage = "parse"
    /\ LET r == parse_string(source) IN
       IF r.ok
       THEN /\ instructions' = r.instructions
            /\ raw' = r.instructions
            /\ prior' = r.instructions
            /\ stage' = "optimize"
       ELSE /\ stage' = "parse_error"
            /\ UNCHANGED <<instructions, raw, prior>>
    /\ UNCHANGED <<source, cycles, round, first_result, applied, ivars>>

\* optimize, lines 22-47: one iteration of the loop
OptimizeCycle ==
    /\ stage = "optimize"
    /\ cycles < MaxCycles
    /\ \E result \in Outcomes(OptimizeCycleBody(instructions, "debug"),
                              OptimizeCycleBody(instructions, "release")) :
         IF Panicked(result)
         THEN /\ stage' = "panicked"
              /\ UNCHANGED <<instructions, prior, cycles>>
         ELSE /\ instructions' = result
              /\ prior' = instructions
              /\ cycles' = cycles + 1
              /\ stage' = IF LoopBreaks(Len(result), Len(instructions))
                          THEN "finalize" ELSE "optimize"
    /\ UNCHANGED <<source, raw, round, first_result, applied, ivars>>

\* optimize, line 49
FixLoops ==
    /\ stage = "finalize"
    /\ instructions' = fix_loops(instructions)
    /\ stage' = "optimized"
    /\ first_result' = IF round = 1 THEN fix_loops(instructions) ELSE first_result
    /\ UNCHANGED <<source, raw, prior, cycles, round, applied, ivars>>

\* a second call of optimize, on what the first returned
Reoptimize ==
    /\ stage = "optimized"
    /\ round = 1
    /\ round' = 2
    /\ cycles' = 0
    /\ prior' = instructions
    /\ stage' = "optimize"
    /\ UNCHANGED <<source, instructions, raw, first_result, applied, ivars>>

\* main, line 188, without --optimize: interpret the instructions as parsed
InterpretRaw ==
    /\ stage = "optimized"
    /\ round = 1
    /\ \E tape_arg \in TapeArgs, bytes \in Inputs :
         EnterInterpret(raw, TapeSizeOf(tape_arg), bytes, "raw")
    /\ stage' = "interpret"
    /\ UNCHANGED <<source, instructions, raw, prior, cycles, round, first_result,
                   applied, raw_output>>

\* main, line 188, with --optimize, on the same input and tape
InterpretOptimized ==
    /\ stage = "interpret"
    /\ run = "raw"
    /\ status = "done"
    /\ EnterInterpret(instructions, memory.size, given_input, "opt")
    /\ raw_output' = output
    /\ UNCHANGED optvars

SetInterpreter(s) ==
    /\ program_counter' = s.program_counter
    /\ memory' = s.memory
    /\ io_buffer' = s.io_buffer
    /\ input' = s.input
    /\ output' = s.output
    /\ status' = s.status
    /\ access' = s.access

Current ==
    [program_counter |-> program_counter, memory |-> memory,
     io_buffer |-> io_buffer, input |-> input, output |-> output,
     status |-> status, access |-> access]

\* interpret, lines 206-344: fetch the instruction at the program counter and
\* run its arm
Execute ==
    /\ status = "running"
    /\ program_counter < Len(program)
    /\ ticks < MaxSteps
    /\ LET instruction == program[program_counter + 1]
           st == [Current EXCEPT !.program_counter = program_counter + 1]
       IN /\ \E s \in Exec(st, instruction) : SetInterpreter(s)
          /\ prev' = [instruction |-> instruction, memory |-> memory,
                      input |-> input, output |-> output, status |-> status]
    /\ instructions_executed' = instructions_executed + 1
    /\ ticks' = ticks + 1
    /\ UNCHANGED <<optvars, program, run, given_input, raw_output>>

\* interpret, lines 326 and 336: one test of the to-zero loop
ToZeroStep ==
    /\ status = "to_zero"
    /\ ticks < MaxSteps
    /\ LET instruction == program[program_counter] IN
       /\ SetInterpreter(ToZero(Current, instruction))
       /\ prev' = [instruction |-> instruction, memory |-> memory,
                   input |-> input, output |-> output, status |-> status]
    /\ ticks' = ticks + 1
    /\ UNCHANGED <<optvars, program, run, given_input, raw_output,
                   instructions_executed>>

\* interpret, lines 346-352: the program counter ran off the end; flush
\* succeeds and interpret returns, or flush fails and todo!() panics
Finish ==
    /\ status = "running"
    /\ program_counter >= Len(program)
    /\ status' \in {"done", "panicked"}
    /\ prev' = [instruction |-> Flush, memory |-> memory,
                input |-> input, output |-> output, status |-> status]
    /\ UNCHANGED <<optvars, program, program_counter, memory, io_buffer, input,
                   output, instructions_executed, access, run, given_input,
                   raw_output, ticks>>

\* ------------------------------------------------------------------------
\* Spec: the toolchain from the source text on
\* ------------------------------------------------------------------------
Init ==
    /\ source \in Sources
    /\ stage = "parse"
    /\ instructions = <<>>
    /\ raw = <<>>
    /\ prior = <<>>
    /\ cycles = 0
    /\ round = 1
    /\ first_result = <<>>
    /\ applied = <<>>
    /\ IdleInterpreter

Next ==
    \/ Parse
    \/ OptimizeCycle
    \/ FixLoops
    \/ InterpretRaw
    \/ InterpretOptimized
    \/ Execute
    \/ ToZeroStep
    \/ Finish

Spec == Init /\ [][Next]_vars

\* ------------------------------------------------------------------------
\* SpecCompile: main up to the end of optimize, nothing interpreted
\* ------------------------------------------------------------------------
NextCompile ==
    \/ Parse
    \/ OptimizeCycle
    \/ FixLoops

SpecCompile == Init /\ [][NextCompile]_vars

\* ------------------------------------------------------------------------
\* SpecOpt: optimize called, as the tests do, on instructions built directly
\* ------------------------------------------------------------------------
IRAlphabet ==
    {Add(1), Add(-1), Move(1), Move(-1), Write(1), JumpIfZero(0),
     JumpIfNotZero(0), JumpIfZero(2), JumpIfNotZero(1), SetValue(0),
     AddRelative(1, 127), MoveRightToZero(0, 1)}

\* the programs of the tests of optimization_tests.rs, lines 67-105: a move,
\* an add and the move back, for deltas on both sides of the limit (4) of the
\* vector patterns and amounts up to the ends of i8
FuseDeltas == {-4, -3, -1, 1, 3, 4}

FuseAmounts == {-128, -5, -1, 1, 5, 127}

FusePrograms ==
    {<<Move(s), Add(a), Move(-s)>> : s \in FuseDeltas, a \in FuseAmounts}

\* the program of the tests of optimization_tests.rs, lines 107-126: two adds,
\* each followed by a move to the right, the moves summing to less than 4
VectorPrograms ==
    {<<Add(a), Move(m[1]), Add(2), Move(m[2])>> :
        a \in {3, -1}, m \in {<<1, 1>>, <<1, 2>>, <<2, 1>>}}

\* the programs of the tests of optimization_tests.rs, lines 128-168: a loop
\* of an add and a move, for strides to both sides, the largest one included
StrideLoopPrograms ==
    {<<JumpIfZero(0), Add(d), Move(s), JumpIfNotZero(0)>> :
        d \in {-128, -1, 2, 127}, s \in {ISIZE_MIN, -3, -1, 1, 3}}

InitOpt ==
    /\ source = <<>>
    /\ stage = "optimize"
    /\ instructions \in SeqsUpTo(IRAlphabet, MaxProg) \cup FusePrograms
                           \cup VectorPrograms \cup StrideLoopPrograms
    /\ raw = instructions
    /\ prior = instructions
    /\ cycles = 0
    /\ round = 1
    /\ first_result = <<>>
    /\ applied = <<>>
    /\ IdleInterpreter

NextOpt ==
    \/ OptimizeCycle
    \/ FixLoops
    \/ Reoptimize

SpecOpt == InitOpt /\ [][NextOpt]_vars

\* ------------------------------------------------------------------------
\* SpecPass: the five passes, each applied on its own to any instructions
\* ------------------------------------------------------------------------
PassAlphabet == IRAlphabet \cup {AddVector(<<1, 1, 0, 0>>)}

ApplyPass(name, results) ==
    /\ stage = "pass"
    /\ \E result \in results :
         IF Panicked(result)
         THEN /\ stage' = "panicked"
              /\ UNCHANGED <<instructions, prior, applied>>
         ELSE /\ instructions' = result
              /\ prior' = instructions
              /\ applied' = Append(applied, name)
              /\ stage' = "passed"
    /\ UNCHANGED <<source, raw, cycles, round, first_result, ivars>>

SquashAndClean == ApplyPass("squash_and_clean", {squash_and_clean(instructions)})

SubstitutePatterns4 ==
    ApplyPass("substitute_patterns_4",
              Outcomes(substitute_patterns_4(instructions, "debug"),
                       substitute_patterns_4(instructions, "release")))

SubstitutePatterns3 ==
    ApplyPass("substitute_patterns_3",
              Outcomes(substitute_patterns_3(instructions, "debug"),
                       substitute_patterns_3(instructions, "release")))

SubstitutePatterns2 ==
    ApplyPass("substitute_patterns_2", {substitute_patterns_2(instructions)})

RemoveSpuriousLoops ==
    ApplyPass("remove_spurious_loops", {remove_spurious_loops(instructions)})

FixLoopsPass == ApplyPass("fix_loops", {fix_loops(instructions)})

\* one instruction of every variant, to stand between two AddRelative of
\* offset 1: some touch the cell at that offset, some move the pointer
Intervening ==
    {Add(1), Move(1), Write(1), Read(1), JumpIfZero(0), JumpIfNotZero(0),
     SetValue(5), AddRelative(1, 1), AddRelative(2, 1),
     AddVector(<<0, 1, 0, 0>>), MoveRightToZero(0, 1), MoveLeftToZero(0, 1)}

\* the windows of the merging arms of substitute_patterns_3 and _4
MergePrograms ==
    {<<AddRelative(1, 1), i, AddRelative(1, 2)>> : i \in Intervening}
      \cup {<<AddRelative(1, 1), i[1], i[2], AddRelative(1, 2)>> :
               i \in Intervening \X Intervening}

\* the windows of the arms that fuse adds and moves into an AddVector:
\* two distinct amounts, moves of one, two or three cells to either side
VectorWindows ==
    {<<Add(3), Move(s), Add(2)>> : s \in {-3, -2, -1, 0, 1, 2, 3}}
      \cup {<<Add(3), Move(m[1]), Add(2), Move(m[2])>> :
               m \in {-2, -1, 1, 2} \X {-2, -1, 1, 2}}
      \cup {<<Move(m[1]), Add(3), Move(m[2]), Add(2)>> :
               m \in {-2, -1, 1, 2} \X {-2, -1, 1, 2}}

InitPass ==
    /\ source = <<>>
    /\ stage = "pass"
    /\ instructions \in SeqsUpTo(PassAlphabet, MaxPassLen) \cup MergePrograms
                           \cup VectorWindows
    /\ raw = instructions
    /\ prior = instructions
    /\ cycles = 0
    /\ round = 1
    /\ first_result = <<>>
    /\ applied = <<>>
    /\ IdleInterpreter

NextPass ==
    \/ SquashAndClean
    \/ SubstitutePatterns4
    \/ SubstitutePatterns3
    \/ SubstitutePatterns2
    \/ RemoveSpuriousLoops
    \/ FixLoopsPass

SpecPass == InitPass /\ [][NextPass]_vars

\* ------------------------------------------------------------------------
\* SpecInterp: interpret called on finalized instructions of every variant
\* ------------------------------------------------------------------------
\* the largest move after which AddVector still stays inside the buffer it
\* has grown is one less
FarMove == STANDARD_TAPE_SIZE + TAPE_GROW_AMOUNT - (VECTOR_SIZE - 1)

InterpAlphabet ==
    {Add(1), Move(1), Move(-1), Move(FarMove), Move(ISIZE_MIN), Write(2), Write(0),
     Read(2),
     JumpIfZero(0), JumpIfNotZero(0), SetValue(-1), AddRelative(-1, 1),
     AddVector(<<1, 2, 3, 4>>), MoveRightToZero(1, 1), MoveLeftToZero(0, 1),
     MoveLeftToZero(0, TWO_POW_63)}

\* fix_loops resolves every jump of a well-bracketed sequence
RECURSIVE Depths(_, _, _)
Depths(instrs, k, depth) ==
    IF k > Len(instrs) THEN <<depth>>
    ELSE LET d == CASE instrs[k].op = "JumpIfZero" -> depth + 1
                    [] instrs[k].op = "JumpIfNotZero" -> depth - 1
                    [] OTHER -> depth
         IN <<depth>> \o Depths(instrs, k + 1, d)

WellBracketed(instrs) ==
    LET ds == Depths(instrs, 1, 0)
    IN /\ \A k \in 1..Len(ds) : ds[k] >= 0
       /\ ds[Len(ds)] = 0

InterpInputs == {<<>>, <<65, 66, 67>>}

\* longer programs, as remove_spurious_loops meets them: a loop that runs and
\* clears its cell followed by a dead loop, a dead loop after SetValue(0),
\* nested dead loops, a loop that runs onto a zero cell
FlagPrograms ==
    {<<Add(1), JumpIfZero(0), SetValue(0), JumpIfNotZero(0), JumpIfZero(0),
       Write(2), JumpIfNotZero(0), Write(2)>>,
     <<Add(1), SetValue(0), JumpIfZero(0), Add(1), JumpIfNotZero(0), Add(1)>>,
     <<JumpIfZero(0), JumpIfZero(0), Write(2), JumpIfNotZero(0),
       JumpIfNotZero(0), Add(1), Write(2)>>,
     <<Add(1), Write(2), JumpIfZero(0), Move(1), JumpIfNotZero(0), Write(2)>>}

InitInterp ==
    /\ source = <<>>
    /\ stage = "interpret"
    /\ \E p \in SeqsUpTo(InterpAlphabet, MaxInterpLen) \cup FlagPrograms :
         /\ WellBracketed(p)
         /\ instructions = fix_loops(p)
    /\ raw = instructions
    /\ prior = instructions
    /\ cycles = 0
    /\ round = 1
    /\ first_result = <<>>
    /\ applied = <<>>
    /\ program = instructions
    /\ program_counter = 0
    /\ \E tape_arg \in TapeArgs : memory = Memory_new(TapeSizeOf(tape_arg))
    /\ io_buffer = [k \in 1..DEFAULT_INPUT_BUFFER_SIZE |-> 0]
    /\ input \in InterpInputs
    /\ output = <<>>
    /\ instructions_executed = 0
    /\ status = "running"
    /\ access = Acc({}, 0)
    /\ prev = NoPrev
    /\ run = "direct"
    /\ given_input = input
    /\ raw_output = <<>>
    /\ ticks = 0

NextInterp ==
    \/ Execute
    \/ ToZeroStep
    \/ Finish

SpecInterp == InitInterp /\ [][NextInterp]_vars

\* ------------------------------------------------------------------------
\* SpecBytecode: compile_to_bytecode called on instructions of every variant,
\* under each tape policy, into a writer that may fail
\* ------------------------------------------------------------------------
BytecodeAlphabet ==
    {Add(1), Add(-1), Add(-128), Move(1), Move(-1), Move(300), Move(ISIZE_MIN),
     Write(1), JumpIfZero(0), SetValue(0), AddVector(<<1, 2, 3, 4>>)}

InitBytecode ==
    /\ source = <<>>
    /\ stage = "compile"
    /\ instructions \in SeqsUpTo(BytecodeAlphabet, MaxProg)
    /\ raw = instructions
    /\ prior = instructions
    /\ cycles = 0
    /\ round = 1
    /\ first_result = <<>>
    /\ applied = <<>>
    /\ IdleInterpreter

\* compile_to_bytecode, lines 11-31: every write_all succeeds and the call
\* returns Ok(()), or one of them fails after some of the bytes and `?`
\* returns the error
CompileToBytecode ==
    /\ stage = "compile"
    /\ \E tape_arg \in TapeArgs :
         LET bytes == compile_to_bytecode(instructions, TapeSizeOf(tape_arg))
         IN \/ /\ output' = bytes
               /\ stage' = "compiled"
            \/ \E n \in 0..(Len(bytes) - 1) :
                 /\ output' = SubSeq(bytes, 1, n)
                 /\ stage' = "compile_error"
    /\ UNCHANGED <<source, instructions, raw, prior, cycles, round, first_result,
                   applied, program, program_counter, memory, io_buffer, input,
                   instructions_executed, status, access, prev, run, given_input,
                   raw_output, ticks>>

NextBytecode == CompileToBytecode

SpecBytecode == InitBytecode /\ [][NextBytecode]_vars

\* ------------------------------------------------------------------------
\* Properties
\* ------------------------------------------------------------------------
RECURSIVE SourceDepths(_, _, _)
SourceDepths(text, k, depth) ==
    IF k > Len(text) THEN <<depth>>
    ELSE LET d == CASE text[k] = "[" -> depth + 1
                    [] text[k] = "]" -> depth - 1
                    [] OTHER -> depth
         IN <<depth>> \o SourceDepths(text, k + 1, d)

\* every "]" closes an open "[" and every "[" is closed
BalancedSource(text) ==
    LET ds == SourceDepths(text, 1, 0)
    IN /\ \A k \in 1..Len(ds) : ds[k] >= 0
       /\ ds[Len(ds)] = 0

\* C1: for a program parsed from a bracket-balanced source, any input and
\* either tape policy, the finished run of the optimized program has written
\* exactly the bytes that the finished run of the raw program wrote.
C1_OutputPreserved ==
    (run = "opt" /\ status = "done" /\ BalancedSource(source))
        => output = raw_output

\* every JumpIfZero at index i with location t has a JumpIfNotZero at t whose
\* location is i, and every JumpIfNotZero is the partner of exactly one
\* JumpIfZero
JumpsPaired(instrs) ==
    LET n == Len(instrs)
        opens == {i \in 1..n : instrs[i].op = "JumpIfZero"}
        closes == {j \in 1..n : instrs[j].op = "JumpIfNotZero"}
    IN /\ \A i \in opens :
            /\ instrs[i].x + 1 \in closes
            /\ instrs[instrs[i].x + 1].x = i - 1
       /\ \A j \in closes :
            Cardinality({i \in opens : instrs[i].x = j - 1}) = 1

\* C2: when optimize returns on a well-bracketed input, the jumps of its
\* output are paired: no unmatched and no self-targeting jump.
C2_JumpsPaired ==
    (stage = "optimized" /\ round = 1 /\ WellBracketed(raw))
        => JumpsPaired(instructions)

\* C3: optimize is idempotent: called on what it returned for a well-bracketed
\* program, it returns the same instruction sequence.
C3_Idempotent ==
    (stage = "optimized" /\ round = 2 /\ WellBracketed(raw))
        => instructions = first_result

\* the instructions the current call of optimize was given
CallInput == IF round = 1 THEN raw ELSE first_result

\* C4: the loop of optimize runs another cycle only after a cycle that
\* strictly reduced the instruction count, so a call performs at most
\* (length of its input + 1) cycles.
C4_CyclesBounded ==
    /\ cycles <= Len(CallInput) + 1
    /\ (stage = "optimize" /\ cycles > 0) => Len(instructions) < Len(prior)

\* a call of optimize that needed three cycles and was finalized
C4_Witness ==
    stage = "optimized" /\ round = 1 /\ cycles = 3 /\ Len(raw) = MaxProg

\* C5: none of the five passes returns more instructions than it was given.
C5_PassNeverLengthens ==
    stage = "passed" => Len(instructions) <= Len(prior)

\* a pass that rewrote its input without shortening it
C5_Witness ==
    /\ stage = "passed"
    /\ applied = <<"substitute_patterns_2">>
    /\ Len(instructions) = Len(prior)
    /\ instructions # prior

\* C6: every buffer index a step of interpret indexes is below the length the
\* buffer has at that moment.
C6_AccessInBounds ==
    \A i \in access.idx : i < access.len

\* the cell of a memory at a tape index (cells beyond the buffer hold nothing)
CellAt(m, i) == TapeGet(m.tape, i)

\* C7: Read(count), count >= 1, with at least count bytes of input left,
\* consumes exactly count bytes, leaves the last of them in the current cell
\* and changes no other cell and not the pointer.
C7_ReadKeepsLastByte ==
    (/\ prev.instruction.op = "Read"
     /\ prev.instruction.x >= 1
     /\ Len(prev.input) >= prev.instruction.x)
        => LET count == prev.instruction.x IN
           /\ input = SubSeq(prev.input, count + 1, Len(prev.input))
           /\ memory.head = prev.memory.head
           /\ CellAt(memory, memory.head) = prev.input[count]
           /\ \A i \in (DOMAIN memory.tape \cup DOMAIN prev.memory.tape)
                          \ {memory.head} :
                 CellAt(memory, i) = CellAt(prev.memory, i)

\* C8: Read(count) with fewer than count bytes of input left is no error:
\* interpret does not panic and goes on with the next instruction.
C8_ShortReadIsNoError ==
    (/\ prev.instruction.op = "Read"
     /\ Len(prev.input) < prev.instruction.x)
        => status \in {"running", "done"}

\* d mod n for a Move amount d
AmountMod(d, n) ==
    IF d = ISIZE_MIN THEN (n - Pow2Mod(UsizeBits - 1, n)) % n ELSE d % n

\* C9: on a finite tape of n cells Move(d) from head h leaves the head at
\* (h + d) mod n, for positive and for negative d.
C9_FiniteMoveWraps ==
    (/\ prev.instruction.op = "Move"
     /\ memory.size.kind = "Finite"
     /\ status \in {"running", "done"})
        => memory.head =
             (prev.memory.head + AmountMod(prev.instruction.x, memory.size.n))
                 % memory.size.n

Max(a, b) == IF a >= b THEN a ELSE b

\* C10: on the infinite tape Move(d) leaves the head at max(0, h + d), and
\* execution goes on.
C10_InfiniteMoveClamps ==
    (/\ prev.instruction.op = "Move"
     /\ memory.size.kind = "Infinite")
        => /\ status \in {"running", "done"}
           /\ memory.head = Max(0, prev.memory.head + prev.instruction.x)

\* the cell that lies `offset` cells from the head: modulo n on the finite
\* tape, not below cell 0 on the infinite one
TargetCell(m, offset) ==
    IF m.size.kind = "Finite"
    THEN (m.head + AmountMod(offset, m.size.n)) % m.size.n
    ELSE Max(0, m.head + offset)

\* what an instruction adds to cell i of memory m
AddedTo(m, instruction, i) ==
    CASE instruction.op = "Add" ->
           IF i = TargetCell(m, 0) THEN instruction.x ELSE 0
      [] instruction.op = "AddRelative" ->
           IF i = TargetCell(m, instruction.x) THEN instruction.y ELSE 0
      [] instruction.op = "AddVector" ->
           (IF i = TargetCell(m, 0) THEN instruction.v[1] ELSE 0)
           + (IF i = TargetCell(m, 1) THEN instruction.v[2] ELSE 0)
           + (IF i = TargetCell(m, 2) THEN instruction.v[3] ELSE 0)
           + (IF i = TargetCell(m, 3) THEN instruction.v[4] ELSE 0)
      [] OTHER -> 0

\* the cells an instruction is to touch, and those that hold a value
CellsOfInterest(m, m2, instruction) ==
    DOMAIN m.tape \cup DOMAIN m2.tape
        \cup {TargetCell(m, k) : k \in 0..(VECTOR_SIZE - 1)}
        \cup {TargetCell(m, instruction.x)}

\* C11: cell arithmetic is modulo 256: after Add, AddRelative or AddVector
\* every target cell holds (old value + amount) mod 256 and no other cell has
\* changed; after SetValue(v) the current cell holds v mod 256, so that a
\* following Add(a) leaves (v + a) mod 256.
C11_CellArithmeticMod256 ==
    (/\ prev.instruction.op \in {"Add", "AddRelative", "AddVector", "SetValue"}
     /\ status \in {"running", "done"})
        => \A i \in CellsOfInterest(prev.memory, memory, prev.instruction) :
             CellAt(memory, i) =
               IF prev.instruction.op = "SetValue" /\ i = prev.memory.head
               THEN prev.instruction.x % 256
               ELSE (CellAt(prev.memory, i)
                       + AddedTo(prev.memory, prev.instruction, i)) % 256

\* C12: Write(count) appends exactly count copies of the value of the current
\* cell to the output, after all earlier output, and changes no tape cell and
\* not the pointer; Write(0) appends nothing.
C12_WriteAppendsCopies ==
    (/\ prev.instruction.op = "Write"
     /\ status \in {"running", "done"})
        => /\ output = prev.output
                \o [k \in 1..prev.instruction.x |->
                      CellAt(prev.memory, prev.memory.head)]
           /\ memory.head = prev.memory.head
           /\ \A i \in DOMAIN memory.tape \cup DOMAIN prev.memory.tape :
                 CellAt(memory, i) = CellAt(prev.memory, i)

\* a Write(2) of a non-zero cell after earlier output
C12_Witness ==
    /\ prev.instruction = Write(2)
    /\ CellAt(prev.memory, prev.memory.head) # 0
    /\ Len(prev.output) > 0
    /\ Len(output) = Len(prev.output) + 2

\* the finalized loop a to-zero instruction stands for
LoopOf(instruction) ==
    fix_loops(<<JumpIfZero(0),
                Add(instruction.x),
                Move(IF instruction.op = "MoveRightToZero"
                     THEN instruction.y ELSE -instruction.y),
                JumpIfNotZero(0)>>)

\* interpret's loop on a program, for at most `fuel` instructions, from the
\* interpreter state st: the states it can end in
RECURSIVE RunLoop(_, _, _)
RunLoop(st, instrs, fuel) ==
    IF fuel = 0 \/ st.program_counter >= Len(instrs) \/ st.status # "running"
    THEN {st}
    ELSE LET instruction == instrs[st.program_counter + 1]
             outs == Exec([st EXCEPT !.program_counter = st.program_counter + 1],
                          instruction)
         IN UNION {RunLoop(s, instrs, fuel - 1) : s \in outs}

\* same pointer and same cells, cells beyond the buffer counting as zero
SameTape(m1, m2) ==
    /\ m1.head = m2.head
    /\ \A i \in DOMAIN m1.tape \cup DOMAIN m2.tape : CellAt(m1, i) = CellAt(m2, i)

\* C13: a to-zero instruction and the finalized loop [JumpIfZero, Add(d),
\* Move(s or -s), JumpIfNotZero] go through the same tape states: from the
\* memory before each test of the to-zero loop, one round of the loop does
\* not abort, leaves the same cells and the same pointer, and the loop is
\* over exactly when the to-zero instruction is.
C13_ToZeroIsItsLoop ==
    (/\ prev.status = "to_zero"
     /\ IsMoveToZero(prev.instruction))
        => LET instrs == LoopOf(prev.instruction)
           IN \A r \in RunLoop([Current EXCEPT !.program_counter = 0,
                                               !.memory = prev.memory,
                                               !.status = "running"],
                                instrs, Len(instrs)) :
                /\ r.status = "running"
                /\ SameTape(r.memory, memory)
                /\ (r.program_counter = Len(instrs))
                     <=> (status # "to_zero" \/ CellAt(memory, memory.head) = 0)

\* C14: parse_string returns an error for every source whose brackets are
\* unbalanced, a ']' with no open '[' as well as a '[' that is never closed.
C14_UnbalancedIsError ==
    (stage # "parse" /\ ~BalancedSource(source)) => stage = "parse_error"

\* C15: a failed write, read or final flush is returned to the caller as an
\* error value: after a step that did input or output, interpret is running,
\* has returned normally or has returned an error; it has not panicked.
C15_IoFailureIsReturned ==
    prev.instruction.op \in {"Write", "Read", "Flush"}
        => status \in {"running", "done", "io_error"}

\* the JumpIfNotZero that fix_loops meets while its jump_stack is empty
UnopenedJumps(instrs) ==
    LET ds == Depths(instrs, 1, 0)
    IN {k \in 1..Len(instrs) : instrs[k].op = "JumpIfNotZero" /\ ds[k] = 0}

\* C16: when fix_loops meets a JumpIfNotZero while no JumpIfZero is pending,
\* optimize stops with a fatal failure: it never returns normally with that
\* jump in its result.
C16_UnopenedJumpIsFatal ==
    stage = "optimized" => UnopenedJumps(instructions) = {}

\* the kind of a source command: +/- , </> , '.' and ',' are four kinds
Kind(c) ==
    CASE c \in {"+", "-"} -> "add"
      [] c \in {">", "<"} -> "move"
      [] c = "." -> "write"
      [] c = "," -> "read"
      [] c \in {"[", "]"} -> "jump"
      [] OTHER -> "comment"

LoopFree(text) ==
    \A k \in 1..Len(text) : Kind(text[k]) \in {"add", "move", "write", "read"}

\* the positions at which a maximal run of same-kind commands starts
RunStarts(text) ==
    {k \in 1..Len(text) : k = 1 \/ Kind(text[k]) # Kind(text[k - 1])}

\* the sum of the amounts of the run that starts at k
RECURSIVE RunSum(_, _)
RunSum(text, k) ==
    LET amount == IF text[k] \in {"-", "<"} THEN -1 ELSE 1
    IN IF k < Len(text) /\ Kind(text[k + 1]) = Kind(text[k])
       THEN amount + RunSum(text, k + 1)
       ELSE amount

\* the runs that may leave an instruction: all but the zero-sum +/- and </>
ContributingRuns(text) ==
    {k \in RunStarts(text) : RunSum(text, k) # 0}

\* C17: optimizing a loop-free source leaves at most one instruction for each
\* maximal run of same-kind commands, and none for a run of +/- or of </>
\* whose amounts sum to zero.
C17_OneInstructionPerRun ==
    (stage = "optimized" /\ LoopFree(source))
        => Len(instructions) <= Cardinality(ContributingRuns(source))

\* five commands in four runs, one of them zero-sum, optimized to three
\* instructions
C17_Witness ==
    /\ stage = "optimized"
    /\ LoopFree(source)
    /\ Len(source) = 5
    /\ Cardinality(RunStarts(source)) = 4
    /\ Cardinality(ContributingRuns(source)) = 3
    /\ Len(instructions) = 3

\* every command that is not a bracket lies inside a loop, so the source is a
\* chain of top-level loops: the first at program start, each other one
\* directly after the close of the loop before it
OnlyDeadLoops(text) ==
    LET ds == SourceDepths(text, 1, 0)
    IN /\ BalancedSource(text)
       /\ \A k \in 1..Len(text) : Kind(text[k]) \notin {"jump", "comment"} => ds[k] > 0

\* C18: a bracket-balanced program in which every top-level instruction lies
\* inside a loop entered with a statically-zero cell (at program start or
\* directly after another loop's close) optimizes to the empty sequence.
C18_DeadLoopsRemoved ==
    (stage = "optimized" /\ OnlyDeadLoops(source)) => instructions = <<>>

\* the program [JumpIfZero, Add(1), JumpIfNotZero] or
\* [JumpIfZero, Add(-1), JumpIfNotZero], with any locations
IsClearLoop(instrs) ==
    /\ Len(instrs) = 3
    /\ instrs[1].op = "JumpIfZero"
    /\ instrs[2] \in {Add(1), Add(-1)}
    /\ instrs[3].op = "JumpIfNotZero"

\* C19: [JumpIfZero, Add(1), JumpIfNotZero] and [JumpIfZero, Add(-1),
\* JumpIfNotZero], whatever the locations of the jumps, optimize to exactly
\* [SetValue(0)]; optimize does not fail on them.
C19_ClearLoopIsSetValue ==
    (IsClearLoop(raw) /\ round = 1)
        => /\ stage # "panicked"
           /\ (stage = "optimized" => instructions = <<SetValue(0)>>)

\* the loop given with locations that are not those fix_loops would set
C19_Witness ==
    /\ stage = "optimized"
    /\ round = 1
    /\ raw = <<JumpIfZero(0), Add(-1), JumpIfNotZero(1)>>
    /\ instructions = <<SetValue(0)>>

\* the program [Move(s), Add(a), Move(-s)] with s and a not zero
IsRelativeAdd(instrs) ==
    /\ Len(instrs) = 3
    /\ instrs[1].op = "Move" /\ instrs[1].x # 0
    /\ instrs[2].op = "Add" /\ instrs[2].x # 0
    /\ instrs[3] = Move(-instrs[1].x)

\* C20: for every non-zero delta s and non-zero amount a, the program
\* [Move(s), Add(a), Move(-s)] optimizes to exactly
\* [AddRelative{offset: s, amount: a}]; optimize does not fail on it.
C20_MoveAddMoveIsAddRelative ==
    (IsRelativeAdd(raw) /\ round = 1)
        => /\ stage # "panicked"
           /\ (stage = "optimized"
                 => instructions = <<AddRelative(raw[1].x, raw[2].x)>>)

\* the second program of the tests: `<<<+++++>>>`
C20_Witness ==
    /\ stage = "optimized"
    /\ round = 1
    /\ raw = <<Move(-3), Add(5), Move(3)>>
    /\ instructions = <<AddRelative(-3, 5)>>

\* the program [Add(a), Move(m1), Add(b), Move(m2)], m1 > 0, m2 > 0,
\* m1 + m2 < 4
IsVectorMove(instrs) ==
    /\ Len(instrs) = 4
    /\ instrs[1].op = "Add" /\ instrs[2].op = "Move"
    /\ instrs[3].op = "Add" /\ instrs[4].op = "Move"
    /\ instrs[2].x > 0 /\ instrs[4].x > 0
    /\ instrs[2].x + instrs[4].x < 4

\* the instruction the tests name; the enum Instruction has no such variant
AddVectorMove(stride, vector) == Ins("AddVectorMove", stride, 0, vector)

\* C21: [Add(a), Move(m1), Add(b), Move(m2)] with m1 > 0, m2 > 0 and
\* m1 + m2 < 4 optimizes to the single instruction
\* AddVectorMove{stride: m1 + m2, vector: a in lane 0, b in lane m1}.
C21_FusesToAddVectorMove ==
    (IsVectorMove(raw) /\ round = 1 /\ stage = "optimized")
        => instructions =
             <<AddVectorMove(raw[2].x + raw[4].x,
                             SetLane(SetLane(Z4, 0, raw[1].x), raw[2].x, raw[3].x))>>

\* the program [JumpIfZero, Add(d), Move(s), JumpIfNotZero], d and s not zero
IsStrideLoop(instrs) ==
    /\ Len(instrs) = 4
    /\ instrs[1].op = "JumpIfZero"
    /\ instrs[2].op = "Add" /\ instrs[2].x # 0
    /\ instrs[3].op = "Move" /\ instrs[3].x # 0
    /\ instrs[4].op = "JumpIfNotZero"

\* C22: for non-zero d and s, [JumpIfZero, Add(d), Move(s), JumpIfNotZero]
\* optimizes to exactly one instruction: MoveRightToZero{d, s} when s > 0,
\* MoveLeftToZero{d, |s|} when s < 0; optimize does not fail on it.
C22_StrideLoopIsMoveToZero ==
    (IsStrideLoop(raw) /\ round = 1)
        => /\ stage # "panicked"
           /\ (stage = "optimized"
                 => instructions =
                      <<IF raw[3].x > 0
                        THEN MoveRightToZero(raw[2].x, raw[3].x)
                        ELSE MoveLeftToZero(raw[2].x, -raw[3].x)>>)

\* the second loop of the tests: `[++<<<]`
C22_Witness ==
    /\ stage = "optimized"
    /\ round = 1
    /\ raw = <<JumpIfZero(0), Add(2), Move(-3), JumpIfNotZero(0)>>
    /\ instructions = <<MoveLeftToZero(2, 3)>>

\* the variants the specification calls stable
StableOps == {"Add", "Write", "Read", "SetValue", "AddRelative"}

\* the variants for which the specification says whether they are stable
ListedOps ==
    StableOps \cup {"Move", "MoveRightToZero", "MoveLeftToZero", "AddVector"}

\* two AddRelative of equal offset with two instructions between them
IsMergeWindow4(instrs) ==
    /\ Len(instrs) = 4
    /\ instrs[1].op = "AddRelative" /\ instrs[4].op = "AddRelative"
    /\ instrs[1].x = instrs[4].x

\* C23: the predicate that lets substitute_patterns_4 merge two AddRelative
\* across the instructions between them is true exactly for Add, Write, Read,
\* SetValue and AddRelative and false for Move, MoveRightToZero,
\* MoveLeftToZero and AddVector: the pair is merged exactly when both
\* instructions between are of the first group.
C23_AddFriendlyIsStable ==
    (/\ stage = "passed"
     /\ applied = <<"substitute_patterns_4">>
     /\ IsMergeWindow4(prior)
     /\ prior[2].op \in ListedOps /\ prior[3].op \in ListedOps)
        => /\ \A k \in {2, 3} :
                is_add_friendly(prior[k]) <=> prior[k].op \in StableOps
           /\ (Len(instructions) = 3)
                <=> (prior[2].op \in StableOps /\ prior[3].op \in StableOps)

\* the command characters of a source, in order
Commands(text) == SelectSeq(text, LAMBDA c : c \in SourceChars)

\* the position of the "]" that closes the "[" at position i of cmds
MatchOf(cmds, i) ==
    LET ds == SourceDepths(cmds, 1, 0)
    IN CHOOSE j \in (i + 1)..Len(cmds) :
         /\ ds[j + 1] = ds[i]
         /\ \A m \in (i + 1)..(j - 1) : ds[m + 1] > ds[i]

\* the position of the "[" that the "]" at position j of cmds closes
OpenOf(cmds, j) ==
    CHOOSE i \in 1..(j - 1) : cmds[i] = "[" /\ MatchOf(cmds, i) = j

\* the instruction for the command at position k, its jump resolved
Emitted(cmds, k) ==
    CASE cmds[k] = "+" -> Add(1)
      [] cmds[k] = "-" -> Add(-1)
      [] cmds[k] = ">" -> Move(1)
      [] cmds[k] = "<" -> Move(-1)
      [] cmds[k] = "." -> Write(1)
      [] cmds[k] = "," -> Read(1)
      [] cmds[k] = "[" -> JumpIfZero(MatchOf(cmds, k) - 1)
      [] cmds[k] = "]" -> JumpIfNotZero(OpenOf(cmds, k) - 1)

\* C24: for a bracket-balanced source the parser succeeds and emits exactly
\* one instruction per command character, in source order, ignoring every
\* other character, each JumpIfZero holding the index of its matching
\* JumpIfNotZero and each JumpIfNotZero the index of its JumpIfZero.
C24_ParseResolvesJumps ==
    (stage # "parse" /\ BalancedSource(source))
        => /\ stage # "parse_error"
           /\ LET cmds == Commands(source)
              IN raw = [k \in 1..Len(cmds) |-> Emitted(cmds, k)]

\* a loop with a comment inside: `[x+]`
C24_Witness ==
    /\ stage = "optimize"
    /\ cycles = 0
    /\ source = <<"[", CommentChar, "+", "]">>
    /\ raw = <<JumpIfZero(2), Add(1), JumpIfNotZero(0)>>

\* the Add and Move instructions of a sequence, in order
Encodable(instrs) == SelectSeq(instrs, LAMBDA i : i.op \in {"Add", "Move"})

\* amount mod 256, ISIZE_MIN standing for -2^63, a multiple of 256
Mod256(amount) == IF amount = ISIZE_MIN THEN 0 ELSE amount % 256

\* C25: compile_to_bytecode writes 'B', 'F', 'C', 1 and then, for each
\* instruction in program order, the pair (1, amount mod 256) for Add and
\* (2, amount mod 256) for Move and nothing for any other variant: 4 bytes
\* and two for each Add and Move, under every tape policy.
C25_BytecodeLayout ==
    stage = "compiled" =>
        LET pairs == Encodable(instructions)
        IN /\ Len(output) = 4 + 2 * Len(pairs)
           /\ SubSeq(output, 1, 4) = <<66, 70, 67, 1>>
           /\ \A j \in 1..Len(pairs) :
                /\ output[3 + 2 * j] = IF pairs[j].op = "Add" THEN 1 ELSE 2
                /\ output[4 + 2 * j] = Mod256(pairs[j].x)

\* a negative add, a long move and a write between them
C25_Witness ==
    /\ stage = "compiled"
    /\ instructions = <<Add(-1), Write(1), Move(300)>>
    /\ output = <<66, 70, 67, 1, 1, 255, 2, 44>>

\* the match of the window of the given width that starts at i
MatchAt(instrs, i, width, build) ==
    CASE width = 2 -> Match2(instrs[i], instrs[i + 1])
      [] width = 3 -> Match3(instrs[i], instrs[i + 1], instrs[i + 2], build)
      [] width = 4 -> Match4(instrs[i], instrs[i + 1], instrs[i + 2],
                             instrs[i + 3], build)

\* the rewriting in which no instruction is lost or duplicated: a matched
\* window is replaced by its fused form, any other instruction is copied
\* once, and what is left when no whole window remains is copied too
RECURSIVE Rewritten(_, _, _, _)
Rewritten(instrs, i, width, build) ==
    IF i + width - 1 > Len(instrs) THEN SubSeq(instrs, i, Len(instrs))
    ELSE LET m == MatchAt(instrs, i, width, build)
         IN IF m.matched
            THEN m.out \o Rewritten(instrs, i + width, width, build)
            ELSE <<instrs[i]>> \o Rewritten(instrs, i + 1, width, build)

\* the window width of the pass that was applied, 0 for the other passes
WidthOf(name) ==
    CASE name = "substitute_patterns_2" -> 2
      [] name = "substitute_patterns_3" -> 3
      [] name = "substitute_patterns_4" -> 4
      [] OTHER -> 0

\* C26: in each of the 2-, 3- and 4-window passes no instruction is lost or
\* duplicated: every instruction belongs to exactly one matched window, which
\* is replaced by its fused form, or is copied once in its place; the
\* instructions after the last matched window are emitted too.
C26_WindowPassLosesNothing ==
    (stage = "passed" /\ Len(applied) = 1 /\ WidthOf(applied[1]) # 0)
        => instructions \in {Rewritten(prior, 1, WidthOf(applied[1]), build) :
                               build \in {"debug", "release"}}

\* two AddRelative of equal offset with one or two instructions between them
IsMergeWindow(instrs) ==
    /\ Len(instrs) \in {3, 4}
    /\ instrs[1].op = "AddRelative" /\ instrs[Len(instrs)].op = "AddRelative"
    /\ instrs[1].x = instrs[Len(instrs)].x

\* the offsets, from the pointer, of the cells an instruction reads or writes
CellsTouched(i) ==
    CASE i.op \in {"Add", "Write", "Read", "SetValue", "JumpIfZero",
                   "JumpIfNotZero", "MoveRightToZero", "MoveLeftToZero"} -> {0}
      [] i.op = "AddRelative" -> {i.x}
      [] i.op = "AddVector" -> 0..(VECTOR_SIZE - 1)
      [] OTHER -> {}

\* an instruction that may stay between the merged pair
Harmless(i, offset) ==
    /\ i.op \notin {"Move", "MoveRightToZero", "MoveLeftToZero"}
    /\ i.op \notin {"JumpIfZero", "JumpIfNotZero"}
    /\ offset \notin CellsTouched(i)

\* instructions that run to the next one, in one step
StraightLine(i) ==
    i.op \in {"Add", "Move", "Write", "Read", "SetValue", "AddRelative", "AddVector"}

\* the state in which a span starts: the given memory, two bytes of input
SpanStart(m) ==
    [program_counter |-> 0, memory |-> m,
     io_buffer |-> [k \in 1..DEFAULT_INPUT_BUFFER_SIZE |-> 0],
     input |-> <<65, 66>>, output |-> <<>>, status |-> "running",
     access |-> Acc({}, 0)]

\* what the runs of a span that reach its end leave: pointer, cells, output
\* and the input not consumed
SpanEffects(instrs, m) ==
    {[head |-> s.memory.head,
      cells |-> [i \in {j \in DOMAIN s.memory.tape : CellAt(s.memory, j) # 0}
                  |-> CellAt(s.memory, i)],
      output |-> s.output, input |-> s.input] :
       s \in {r \in RunLoop(SpanStart(m), instrs, Len(instrs)) :
                r.status = "running"}}

\* all-zero tapes of both policies, the pointer on the first or second cell
StartMemories ==
    {[Memory_new(size) EXCEPT !.head = h] :
        size \in {Infinite, Finite(4)}, h \in {0, 1}}

\* C27: whenever the 3-window or the 4-window pass merges two AddRelative of
\* equal offset and keeps what stands between them, no kept instruction
\* moves the pointer, transfers control or reads or writes the cell at that
\* offset, and the rewritten span leaves the same tape, pointer and output
\* as the original one.
C27_MergeKeepsMeaning ==
    (/\ stage = "passed"
     /\ applied \in {<<"substitute_patterns_3">>, <<"substitute_patterns_4">>}
     /\ IsMergeWindow(prior)
     /\ Len(prior) = WidthOf(applied[1])
     /\ Len(instructions) = Len(prior) - 1)
        => /\ \A k \in 2..(Len(prior) - 1) : Harmless(prior[k], prior[1].x)
           /\ (\A k \in 2..(Len(prior) - 1) : StraightLine(prior[k]))
                => \A m \in StartMemories :
                      SpanEffects(instructions, m) = SpanEffects(prior, m)

\* the windows Add,Move,Add / Add,Move,Add,Move / Move,Add,Move,Add with
\* moves to the right or to the left
IsVectorWindow(instrs) ==
    /\ Len(instrs) \in {3, 4}
    /\ \A k \in 1..Len(instrs) : instrs[k].op \in {"Add", "Move"}
    /\ \A k \in 1..(Len(instrs) - 1) : instrs[k].op # instrs[k + 1].op
    /\ Len(instrs) = 3 => instrs[1].op = "Add"
    /\ \A k \in 1..Len(instrs) : instrs[k].op = "Move" => instrs[k].x # 0

\* all-zero tapes of both policies with the pointer far from both ends, so
\* that no move of a window clamps or wraps
RoomyMemories ==
    {[Memory_new(size) EXCEPT !.head = 8] : size \in {Infinite, Finite(16)}}

\* C28: whenever the 3-window or the 4-window pass fuses adds and moves into
\* an AddVector and a Move, then from a state in which no move clamps or
\* wraps, the fused instructions add each amount to the cell the original
\* added it to and leave the pointer where the original left it.
C28_VectorFusionKeepsCells ==
    (/\ stage = "passed"
     /\ applied \in {<<"substitute_patterns_3">>, <<"substitute_patterns_4">>}
     /\ IsVectorWindow(prior)
     /\ Len(prior) = WidthOf(applied[1])
     /\ \E k \in 1..Len(instructions) : instructions[k].op = "AddVector")
        => \A m \in RoomyMemories :
              SpanEffects(instructions, m) = SpanEffects(prior, m)

\* the linear scan of remove_spurious_loops, for each instruction: "zero"
\* when the scan reaches it with the flag true (the JumpIfZero of a dropped
\* loop and the JumpIfNotZero that closes it included), "dropped" for the
\* body of a dropped loop, "unknown" otherwise
RECURSIVE ZeroFlags(_, _, _)
ZeroFlags(instrs, i, cell_is_zero) ==
    IF i > Len(instrs) THEN <<>>
    ELSE LET instruction == instrs[i]
             close == SkipLoop(instrs, i + 1, 0)
         IN IF instruction.op = "JumpIfZero" /\ cell_is_zero /\ close # 0
            THEN <<"zero">> \o [k \in 1..(close - i - 1) |-> "dropped"]
                   \o <<"zero">> \o ZeroFlags(instrs, close + 1, cell_is_zero)
            ELSE <<IF cell_is_zero THEN "zero" ELSE "unknown">>
                   \o ZeroFlags(instrs, i + 1,
                                NextCellIsZero(instruction, cell_is_zero))

\* C29: the zero-flag of remove_spurious_loops is sound: in a run of a
\* well-bracketed program from an all-zero tape, an instruction that the scan
\* reaches with the flag true is only ever reached with the current cell 0,
\* and the body of a loop that the pass drops is never executed.
C29_ZeroFlagSound ==
    (status = "running" /\ program_counter < Len(program))
        => LET flag == ZeroFlags(program, 1, TRUE)[program_counter + 1]
           IN /\ flag # "dropped"
              /\ flag = "zero" => CellAt(memory, memory.head) = 0

\* after a loop that ran and cleared its cell, a dead loop has been jumped
\* over and the instruction behind it is reached, the cell being 0
C29_Witness ==
    /\ status = "running"
    /\ Len(program) = 8
    /\ program_counter = 7
    /\ program[5].op = "JumpIfZero"
    /\ ZeroFlags(program, 1, TRUE)[6] = "dropped"
    /\ ZeroFlags(program, 1, TRUE)[8] = "zero"
    /\ instructions_executed = 6

\* the position of the JumpIfNotZero that closes the JumpIfZero at i
CloseOf(instrs, i) ==
    LET ds == Depths(instrs, 1, 0)
    IN CHOOSE j \in (i + 1)..Len(instrs) :
         /\ instrs[j].op = "JumpIfNotZero"
         /\ ds[j + 1] = ds[i]
         /\ \A m \in (i + 1)..(j - 1) : ds[m + 1] > ds[i]

\* the position of the JumpIfZero that the JumpIfNotZero at j closes
StartOf(instrs, j) ==
    CHOOSE i \in 1..(j - 1) :
        instrs[i].op = "JumpIfZero" /\ CloseOf(instrs, i) = j

\* C30: on a well-bracketed sequence, whatever locations its jumps hold,
\* fix_loops leaves each JumpIfZero with the index of its matching
\* JumpIfNotZero and each JumpIfNotZero with the index of its matching
\* JumpIfZero, meets no JumpIfNotZero with its stack empty and changes
\* nothing else: length, order and all other instructions stay.
C30_FixLoopsResolvesJumps ==
    (stage = "passed" /\ applied = <<"fix_loops">> /\ WellBracketed(prior))
        => /\ UnopenedJumps(prior) = {}
           /\ Len(instructions) = Len(prior)
           /\ \A k \in 1..Len(prior) :
                instructions[k] =
                    CASE prior[k].op = "JumpIfZero" ->
                           JumpIfZero(CloseOf(prior, k) - 1)
                      [] prior[k].op = "JumpIfNotZero" ->
                           JumpIfNotZero(StartOf(prior, k) - 1)
                      [] OTHER -> prior[k]

\* two nested loops given with stale locations
C30_Witness ==
    /\ stage = "passed"
    /\ applied = <<"fix_loops">>
    /\ prior = <<JumpIfZero(2), JumpIfZero(0), JumpIfNotZero(1), JumpIfNotZero(0)>>
    /\ instructions = <<JumpIfZero(3), JumpIfZero(2), JumpIfNotZero(1),
                        JumpIfNotZero(0)>>

====
